---- MODULE Spec2Model ----
(***************************************************************************)
(* The Physics-Momentum signal engine of Crypto-Physics-Momentum.          *)
(*                                                                         *)
(* src/analysis.js holds two variants of the engine:                       *)
(*   variant "A"  lines   1-359  fetchCandlesFallback + analyzePhysics     *)
(*   variant "B"  lines 361-620  fetchCandlesMulti    + analyzePhysics     *)
(* Both are modelled; the variable `variant` says which one is running.    *)
(*                                                                         *)
(* Numbers.  A JavaScript number is a record [k, v]: k = "num" with the    *)
(* integer v, k = "nan", k = "inf" with v = 1 or -1, k = "null" for the    *)
(* value null.  Prices are whole ticks.  The levels derived with the       *)
(* factor 1.5 (sl, tp) are held in HALF ticks, so that they stay exact.    *)
(***************************************************************************)
EXTENDS Integers, Sequences, FiniteSets, TLC

VARIABLES
    variant,      \* "A" or "B": which variant of analysis.js runs
    pc,           \* where the call is: "idle", "await", "fetched", "resumed", "done"
    limit,        \* the limit handed to the fetch
    order,        \* `sources`: the providers in iteration order
    pos,          \* index into order of the provider of the current iteration
    inflight,     \* providers whose axios.get has not completed yet
    reqCount,     \* number of requests issued to each provider in this fetch
    failed,       \* providers whose attempt failed or was rejected
    lastOutcome,  \* what the latest completed attempt was
    raw,          \* the latest response body that was a list of rows
    fetchStatus,  \* "none", "running", "returned", "threw", "null"
    candles,      \* the series the fetch returned
    caught,       \* the error analyzePhysics's catch swallowed, "none" if none
    snap,         \* the latest-index indicator values analyzePhysics read
    outcome,      \* what the caller of analyzePhysics got
    call,         \* which evaluation of this process is running: 1, 2
    first,        \* series, indicator values and result of the first evaluation
    now,          \* Date.now(), in half hours
    store,        \* the dedup file: the records {symbol, side, ts} of sent signals
    isScanning,   \* the flag of index.js that a pass is running
    passes,       \* the scan passes: the symbol each one is at, and its await
    sent,         \* every broadcast so far, in order: symbol, side and time
    last,         \* the latest thing the scanner did (tick or dedup decision)
    calc,         \* one evaluation of the indicator functions: input and output
    users,        \* the users file: the chatIds of the subscribers, in order
    cast          \* the broadcast in progress, if any, and the latest result

\* What outlives one evaluation, for the comparison of two.
callVars == <<call, first>>

\* The state of the scanner of index.js / part_000.
scanVars == <<now, store, isScanning, passes, sent, last>>

\* The indicator functions taken alone, and the subscribers with the
\* broadcast to them.
auxVars == <<calc, users, cast>>

\* The state of one analyzePhysics call.
coreVars == <<variant, pc, limit, order, pos, inflight, reqCount, failed,
              lastOutcome, raw, fetchStatus, candles, caught, snap, outcome,
              call, first>>

vars == <<variant, pc, limit, order, pos, inflight, reqCount, failed,
          lastOutcome, raw, fetchStatus, candles, caught, snap, outcome,
          call, first, now, store, isScanning, passes, sent, last,
          calc, users, cast>>

-----------------------------------------------------------------------------
(* JavaScript numbers *)

Num(x) == [k |-> "num", v |-> x]
NaN    == [k |-> "nan", v |-> 0]
PosInf == [k |-> "inf", v |-> 1]
NegInf == [k |-> "inf", v |-> -1]
Null   == [k |-> "null", v |-> 0]

IsNum(a)  == a.k = "num"
IsNaN(a)  == a.k = "nan"
IsNull(a) == a.k = "null"

Abs(x) == IF x < 0 THEN -x ELSE x
Min(x, y) == IF x <= y THEN x ELSE y
Max(x, y) == IF x >= y THEN x ELSE y

\* ToNumber of a value used as an operand: null counts as 0.
AsOperand(a) == IF IsNull(a) THEN Num(0) ELSE a

\* a < b of JavaScript: false as soon as one side is NaN.
JsLt(a, b) ==
    LET x == AsOperand(a)
        y == AsOperand(b)
    IN  /\ ~IsNaN(x)
        /\ ~IsNaN(y)
        /\ IF x.k = "inf" THEN x.v = -1 /\ y # NegInf
           ELSE IF y.k = "inf" THEN y.v = 1
           ELSE x.v < y.v

JsGt(a, b) == JsLt(b, a)

\* a + b of JavaScript.
JsAdd(a, b) ==
    LET x == AsOperand(a)
        y == AsOperand(b)
    IN  IF IsNaN(x) \/ IsNaN(y) THEN NaN
        ELSE IF x.k = "inf" /\ y.k = "inf" THEN (IF x.v = y.v THEN x ELSE NaN)
        ELSE IF x.k = "inf" THEN x
        ELSE IF y.k = "inf" THEN y
        ELSE Num(x.v + y.v)

\* c * a for an integer literal c.
JsMulC(c, a) ==
    LET x == AsOperand(a)
    IN  IF IsNaN(x) THEN NaN
        ELSE IF x.k = "inf"
             THEN (IF c = 0 THEN NaN ELSE IF c > 0 THEN x ELSE [k |-> "inf", v |-> -x.v])
        ELSE Num(c * x.v)

JsNeg(a) == JsMulC(-1, a)
JsSub(a, b) == JsAdd(a, JsNeg(b))

\* x || 0 : the falsy numbers (0, NaN) and null become 0.
OrZero(a) == IF IsNaN(a) \/ IsNull(a) THEN Num(0) ELSE a

-----------------------------------------------------------------------------
(* Response bodies.  A field of a row is a JSON value: a number (or numeric
   string), a string that is no number, or the string "Infinity". *)

RNum(x) == [k |-> "num", v |-> x]
RText   == [k |-> "text", v |-> 0]
RInf    == [k |-> "infstr", v |-> 0]

\* Number(x) of variant A and parseFloat(x) of variant B agree on these.
ToNumber(r) ==
    CASE r.k = "num"    -> Num(r.v)
      [] r.k = "text"   -> NaN
      [] r.k = "infstr" -> PosInf

Reverse(s) ==
    LET n == Len(s)
    IN  [i \in 1..n |-> s[n + 1 - i]]

\* arr.slice(-k) for k > 0: the last min(k, length) entries.
SliceLast(s, k) ==
    LET n == Len(s)
    IN  IF n <= k THEN s
        ELSE [i \in 1..k |-> s[n - k + i]]

-----------------------------------------------------------------------------
(* Providers and their responses *)

\* DATA_SOURCES of variant A, in array order: BinanceFutures, BinanceSpot,
\* BybitV5, Bitget, OKX.
DATA_SOURCES_A == <<1, 2, 3, 4, 5>>

\* DATA_SOURCES of variant B with their priority field: Binance Futures,
\* Binance Spot, Bybit.
DATA_SOURCES_B == <<[id |-> 1, priority |-> 1],
                    [id |-> 2, priority |-> 2],
                    [id |-> 3, priority |-> 3]>>

SourceIds(v) ==
    IF v = "A" THEN {DATA_SOURCES_A[i] : i \in 1..Len(DATA_SOURCES_A)}
    ELSE {DATA_SOURCES_B[i].id : i \in 1..Len(DATA_SOURCES_B)}

AllIds == SourceIds("A") \cup SourceIds("B")

\* Acceptance threshold of the fetch, and the shortest series analyzePhysics
\* analyses.
MinCandles == 30
MinHistory == 40

\* How far above MinHistory the modelled series lengths go.
MaxExtra == 0

\* Line 390: LIMIT of variant B, the limit index.js passes too (line 242).
LIMIT == 120

\* Series lengths a provider may answer with: around both thresholds, and
\* one candle more than was asked for.
Lengths == {MinCandles - 1, MinCandles, MinHistory - 1, LIMIT + 1} \cup
           (MinHistory..(MinHistory + MaxExtra))

\* The limits a caller passes: index.js passes 120 (LIMIT of variant B);
\* a small one makes slice(-limit) cut.
Limits == {35, 120}

\* Close prices of the modelled series: between the band centres, below
\* them, above them, and below zero (the code accepts any number).
Closes == {-1, 50, 100, 300}

\* What is wrong with a response, if anything: a field of the penultimate
\* candle that is no number, or the two oldest candles listed in each
\* other's place.
Flaws == {"none", "highText", "highInf", "closeText", "swapped"}

\* The rows of one response: n candles of provider p, oldest first unless
\* desc, all closing at px; the exchange p reports its own volume p.
Rows(p, n, desc, flaw, px) ==
    LET row(i) ==
            [t     |-> i,
             open  |-> RNum(px),
             high  |-> IF i = n - 1 /\ flaw = "highText" THEN RText
                       ELSE IF i = n - 1 /\ flaw = "highInf" THEN RInf
                       ELSE RNum(px + 1),
             low   |-> RNum(px - 1),
             close |-> IF i = n - 1 /\ flaw = "closeText" THEN RText
                       ELSE RNum(px),
             vol   |-> RNum(p)]
        at(i) == IF flaw = "swapped" /\ i \in {1, 2} THEN 3 - i ELSE i
        asc == [i \in 1..n |-> row(at(i))]
    IN  IF desc THEN Reverse(asc) ELSE asc

\* Lines 86-95 (A) and 408-425 (B): every row becomes a candle, each OHLCV
\* field coerced with Number / parseFloat; the timestamp is kept as it is.
NormalizeRows(rows) ==
    [i \in 1..Len(rows) |->
        LET c == rows[i]
        IN  [t     |-> c.t,
             open  |-> ToNumber(c.open),
             high  |-> ToNumber(c.high),
             low   |-> ToNumber(c.low),
             close |-> ToNumber(c.close),
             vol   |-> ToNumber(c.vol)]]

\* A series left in the order the provider listed it.
AsListed(cs) == cs

\* Lines 123 and 429: reversed when the first timestamp exceeds the last.
Chronological(cs) ==
    IF Len(cs) > 0 /\ cs[1].t > cs[Len(cs)].t THEN Reverse(cs) ELSE cs

\* An acceptance test that is off by one.
AcceptsOneFewer(cs) == Len(cs) >= MinCandles - 1

\* Lines 121 and 427: the acceptance test of one provider's series.
Accepts(cs) == Len(cs) >= MinCandles

\* Lines 123-124 (A: reorder, then slice(-limit)) and 429-430 (B: reorder).
FetchReturn(v, cs, lim) ==
    IF v = "A" THEN SliceLast(Chronological(cs), lim) ELSE Chronological(cs)

\* A swap that loses A[i]: only one of the two assignments.
SwapLosesElement(s, i, j) == [s EXCEPT ![i] = s[j]]

\* Line 56: [arr[i], arr[j]] = [arr[j], arr[i]].
Swap(s, i, j) == [s EXCEPT ![i] = s[j], ![j] = s[i]]

\* Lines 54-57: the shuffle, for i from the last index down to the second,
\* j drawn from the indices up to i.  The set of arrays it can leave.
RECURSIVE Shuffle(_, _)
Shuffle(s, i) ==
    IF i <= 1 THEN {s}
    ELSE UNION {Shuffle(Swap(s, i, j), i - 1) : j \in 1..i}

\* Line 393: [...DATA_SOURCES].sort by priority (priorities are distinct).
RECURSIVE SortByPriority(_)
SortByPriority(set) ==
    IF set = {} THEN <<>>
    ELSE LET m == CHOOSE x \in set : \A y \in set : x.priority <= y.priority
         IN  <<m.id>> \o SortByPriority(set \ {m})

\* The iteration orders a fetch can use.
Orders(v) ==
    IF v = "A" THEN Shuffle(DATA_SOURCES_A, Len(DATA_SOURCES_A))
    ELSE {SortByPriority({DATA_SOURCES_B[i] : i \in 1..Len(DATA_SOURCES_B)})}

-----------------------------------------------------------------------------
(* The indicator library, abstracted to the values it can leave at the
   latest index.  The recurrences themselves (Wilder smoothing over 14 and
   20 candles) are not evaluated here: what is kept is which of the values
   can be non-finite for a given series, as the code propagates it. *)

BBPeriod == 20

\* Finite values the indicators may take at the latest index.
RsiVals == {0, 29, 30, 70, 71, 100}
MidVals == {96, 104}
SdVals  == {1, 2}
AVals   == {-1000, -1, 0, 1, 1000}
AtrVals == {0, 2, 3}

\* The closes of the trailing window of line 184 / 450 at the last index.
LastWindow(cs, period) ==
    {cs[i].close : i \in Max(1, Len(cs) - period + 1)..Len(cs)}

\* The operands of the true ranges of lines 206-213 / 500-507.
TrueRangeOperands(cs) ==
    UNION {{cs[i].high, cs[i].low, cs[i - 1].close} : i \in 2..Len(cs)}

\* computeRSI / rsiFromArray: a NaN close makes every later average NaN.
RsiRange(cs) ==
    IF \E i \in 1..Len(cs) : IsNaN(cs[i].close) THEN {NaN}
    ELSE {Num(x) : x \in RsiVals}

\* sma: variant A counts a NaN entry as 0 (Number(b)||0, line 185), variant
\* B adds it (line 451).
MidRange(v, cs) ==
    IF v = "B" /\ NaN \in LastWindow(cs, BBPeriod) THEN {NaN}
    ELSE {Num(x) : x \in MidVals}

\* rollingStd / stddev: NaN when the window holds a NaN.
SdRange(cs) ==
    IF NaN \in LastWindow(cs, BBPeriod) THEN {NaN}
    ELSE {Num(x) : x \in SdVals}

\* Velocity and acceleration: both variants count a NaN price change as 0
\* (lines 185 and 535), so the acceleration stays finite.
ARange(cs) == {Num(x) : x \in AVals}

\* computeATR / atrFromCandles: Math.max and the smoothing propagate NaN,
\* and Infinity where there is no NaN.
AtrRange(cs) ==
    IF NaN \in TrueRangeOperands(cs) THEN {NaN}
    ELSE IF PosInf \in TrueRangeOperands(cs) THEN {PosInf}
    ELSE {Num(x) : x \in AtrVals}

\* The latest-index values analyzePhysics can read for the series cs.
Indicators(v, cs) ==
    {[rsi |-> r, mid |-> m, sd |-> d, a |-> acc, atr |-> t] :
        r \in RsiRange(cs), m \in MidRange(v, cs), d \in SdRange(cs),
        acc \in ARange(cs), t \in AtrRange(cs)}

NoSnap == [rsi |-> Null, mid |-> Null, sd |-> Null, a |-> Null, atr |-> Null]

NoFirst == [kind |-> "none"]

\* The indicator functions read their arguments and nothing else (no
\* module state, no clock, no random number): for a series they were
\* already applied to they return what they returned then.
Library(v, cs, earlier) ==
    IF earlier # NoFirst /\ earlier.candles = cs THEN {earlier.snap}
    ELSE Indicators(v, cs)

-----------------------------------------------------------------------------
(* analyzePhysics, after the fetch *)

NullResult == [kind |-> "null"]

\* Lines 265-266 (A): m -/+ 2 * (std20[idx] || 0).
\* Lines 566-567 (B): m === null ? null : m -/+ 2 * sd20Arr[i].
LowerBand(v, ind) ==
    IF v = "A" THEN JsSub(ind.mid, JsMulC(2, OrZero(ind.sd)))
    ELSE IF IsNull(ind.mid) THEN Null
    ELSE JsSub(ind.mid, JsMulC(2, ind.sd))

UpperBand(v, ind) ==
    IF v = "A" THEN JsAdd(ind.mid, JsMulC(2, OrZero(ind.sd)))
    ELSE IF IsNull(ind.mid) THEN Null
    ELSE JsAdd(ind.mid, JsMulC(2, ind.sd))

\* Line 295 (A): only null is looked for, and not in the acceleration.
\* Line 581 (B): null, undefined or NaN in any of the five.
IndicatorsMissing(v, rsi, lower, upper, a, atr) ==
    IF v = "A"
    THEN IsNull(rsi) \/ IsNull(lower) \/ IsNull(upper) \/ IsNull(atr)
    ELSE \E x \in {rsi, lower, upper, a, atr} : IsNull(x) \/ IsNaN(x)

\* A LONG condition with the RSI threshold off by one.
LongCondLooseRsi(rsi, close, lower, a) ==
    JsLt(rsi, Num(31)) /\ JsLt(close, lower) /\ JsGt(a, Num(0))

\* Lines 301 and 589.
LongCond(rsi, close, lower, a) ==
    JsLt(rsi, Num(30)) /\ JsLt(close, lower) /\ JsGt(a, Num(0))

\* A SHORT condition copied from the LONG one with no comparison flipped.
ShortCondUnflipped(rsi, close, upper, a) ==
    JsLt(rsi, Num(30)) /\ JsLt(close, upper) /\ JsGt(a, Num(0))

\* Lines 302 and 590.
ShortCond(rsi, close, upper, a) ==
    JsGt(rsi, Num(70)) /\ JsGt(close, upper) /\ JsLt(a, Num(0))

\* A side that is given once per process: a later evaluation gives none.
SideOnlyOnce(v, rsi, close, lower, upper, a) ==
    IF call > 1 THEN "none"
    ELSE IF ShortCond(rsi, close, upper, a) THEN "SHORT"
    ELSE IF LongCond(rsi, close, lower, a) THEN "LONG"
    ELSE "none"

\* Lines 300-302 (A): two independent assignments, SHORT last.
\* Lines 588-591 (B): if / else if / else.
Side(v, rsi, close, lower, upper, a) ==
    IF v = "A"
    THEN LET s1 == IF LongCond(rsi, close, lower, a) THEN "LONG" ELSE "none"
         IN  IF ShortCond(rsi, close, upper, a) THEN "SHORT" ELSE s1
    ELSE IF LongCond(rsi, close, lower, a) THEN "LONG"
         ELSE IF ShortCond(rsi, close, upper, a) THEN "SHORT"
         ELSE "none"

\* A stop at 2 * ATR instead of 1.5 * ATR.
StopLossTwoAtr(side, entry, atr) ==
    IF side = "LONG" THEN JsSub(JsMulC(2, entry), JsMulC(4, atr))
    ELSE JsAdd(JsMulC(2, entry), JsMulC(4, atr))

\* Lines 307-313 and 597-603, in half ticks: 2*sl = 2*entry -/+ 3*atr.
StopLoss(side, entry, atr) ==
    IF side = "LONG" THEN JsSub(JsMulC(2, entry), JsMulC(3, atr))
    ELSE JsAdd(JsMulC(2, entry), JsMulC(3, atr))

\* In half ticks: 2*tp = 2*entry +/- 6*atr.
TakeProfit(side, entry, atr) ==
    IF side = "LONG" THEN JsAdd(JsMulC(2, entry), JsMulC(6, atr))
    ELSE JsSub(JsMulC(2, entry), JsMulC(6, atr))

JsAbs(a) ==
    IF IsNum(a) THEN Num(Abs(a.v))
    ELSE IF a.k = "inf" THEN PosInf
    ELSE a

\* x / y * 100 rounded to the nearest integer (half up), for y > 0, x >= 0.
Hundredths(x, y) == (200 * x + y) \div (2 * y)

\* Lines 314 and 604: (Math.abs(tp - entry) / Math.abs(entry - sl)) || null.
\* The quotient is held in hundredths; 0/0, Inf/Inf and NaN are NaN, hence
\* falsy, hence null.
RawRR(entry, tp, sl) ==
    LET e2  == JsMulC(2, entry)
        num == JsAbs(JsSub(tp, e2))
        den == JsAbs(JsSub(e2, sl))
    IN  IF IsNum(num) /\ IsNum(den)
        THEN (IF den.v = 0
              THEN (IF num.v = 0 THEN Null ELSE PosInf)
              ELSE IF num.v = 0 THEN Null
              ELSE Num(Hundredths(num.v, den.v)))
        ELSE IF IsNaN(num) \/ IsNaN(den) THEN Null
        ELSE IF IsNum(den) THEN PosInf
        ELSE Null

\* Line 340 (A): rr ? Number(rr.toFixed(2)) : null.
\* Line 613 (B): Number(rr), and Number(null) is 0.
RiskReward(v, entry, tp, sl) ==
    LET rr == RawRR(entry, tp, sl)
    IN  IF v = "A" THEN rr
        ELSE IF IsNull(rr) THEN Num(0) ELSE rr

\* Math.round(n / d) for d # 0: the nearest integer, halves upwards.
RoundDiv(n, d) ==
    IF d > 0 THEN (2 * n + d) \div (2 * d)
    ELSE ((-2) * n - d) \div ((-2) * d)

\* A confidence that is rounded but not clamped.
ConfidenceUnclamped(side, rsi, a, atr, entry) ==
    LET e == IF entry.v = 0 THEN 1 ELSE entry.v
        bonus == IF IsNum(atr) /\ e > 0 /\ 200 * atr.v < e THEN 5 ELSE 0
    IN  70 + (IF side = "LONG" THEN 30 - rsi.v ELSE rsi.v - 70) + bonus
           + (IF e > 0 /\ 1000 * Abs(a.v) >= 10 * e THEN 10 ELSE 0)

\* A confidence whose RSI term is the distance taken the wrong way round
\* (rsi - 30 for a LONG, 70 - rsi for a SHORT), everything else as in the
\* code.
ConfidenceRsiInverted(side, rsi, a, atr, entry) ==
    LET e == IF entry.v = 0 THEN 1 ELSE entry.v
        rsiPart == IF side = "LONG" THEN Min(15, rsi.v - 30)
                   ELSE Min(15, 70 - rsi.v)
        accCapped == IF e > 0 THEN 1000 * Abs(a.v) >= 10 * e ELSE FALSE
        atrSmall == IF IsNum(atr)
                    THEN (IF e > 0 THEN 200 * atr.v < e ELSE 200 * atr.v > e)
                    ELSE IF atr.k = "inf" THEN (atr.v = 1) = (e < 0)
                    ELSE FALSE
        rounded == 70 + rsiPart + (IF atrSmall THEN 5 ELSE 0)
                   + (IF accCapped THEN 10 ELSE RoundDiv(1000 * Abs(a.v), e))
    IN  Max(30, Min(95, rounded))

\* Lines 318-332 (A).  rsi, a and entry are numbers here, because a side
\* was chosen by comparisons that are false on NaN.
Confidence(side, rsi, a, atr, entry) ==
    LET e        == IF entry.v = 0 THEN 1 ELSE entry.v        \* entry || 1
        rsiPart  == IF side = "LONG" THEN Min(15, 30 - rsi.v)
                    ELSE Min(15, rsi.v - 70)
        accNum   == 1000 * Abs(a.v)                           \* over e
        accCapped == IF e > 0 THEN accNum >= 10 * e ELSE FALSE
        atrSmall == IF IsNum(atr)
                    THEN (IF e > 0 THEN 200 * atr.v < e ELSE 200 * atr.v > e)
                    ELSE IF atr.k = "inf" THEN (atr.v = 1) = (e < 0)
                    ELSE FALSE
        bonus    == IF atrSmall THEN 5 ELSE 0
        rounded  == 70 + rsiPart + bonus
                    + (IF accCapped THEN 10 ELSE RoundDiv(accNum, e))
    IN  Max(30, Min(95, rounded))

\* Lines 343-348 (A): the diagnostics, each (x || 0) but the close.
Meta(rsi, lower, upper, a, atr, close) ==
    [rsi |-> OrZero(rsi), lowerBB |-> OrZero(lower), upperBB |-> OrZero(upper),
     acceleration |-> OrZero(a), atr |-> OrZero(atr), close |-> close]

\* A history test that uses the threshold of the fetch.
TooShortAsFetch(cs) == Len(cs) < MinCandles

\* Lines 248 and 552: not enough history to analyse.
TooShort(cs) == Len(cs) < MinHistory

\* Lines 248-350 (A) and 552-614 (B): the part of analyzePhysics that
\* follows the fetch, for the fetched series cs and the latest-index
\* indicator values ind.
AnalyzeSeries(v, cs, ind) ==
    IF TooShort(cs) THEN NullResult
    ELSE
    LET lastClose == cs[Len(cs)].close
        lower     == LowerBand(v, ind)
        upper     == UpperBand(v, ind)
        side      == Side(v, ind.rsi, lastClose, lower, upper, ind.a)
        sl        == StopLoss(side, lastClose, ind.atr)
        tp        == TakeProfit(side, lastClose, ind.atr)
    IN  IF IndicatorsMissing(v, ind.rsi, lower, upper, ind.a, ind.atr)
        THEN NullResult
        ELSE IF side = "none" THEN NullResult
        ELSE IF v = "A"
        THEN [kind |-> "signal", side |-> side, entry |-> lastClose,
              tp |-> tp, sl |-> sl,
              rr |-> RiskReward(v, lastClose, tp, sl),
              confidence |-> Confidence(side, ind.rsi, ind.a, ind.atr, lastClose),
              meta |-> Meta(ind.rsi, lower, upper, ind.a, ind.atr, lastClose)]
        ELSE [kind |-> "signal", side |-> side, entry |-> lastClose,
              tp |-> tp, sl |-> sl,
              rr |-> RiskReward(v, lastClose, tp, sl)]

-----------------------------------------------------------------------------
(* One call of analyzePhysics.  The call waits at axios.get and at the
   await of the fetch, so a step runs from one completed request to the
   next request or to the end of the fetch, and one more step runs from the
   end of the fetch to the return of analyzePhysics. *)

Pending == [kind |-> "pending"]

\* A catch that throws the error on to the caller.
CatchRethrows(err) == [kind |-> "raised", error |-> err]

\* A catch that hands the error to the caller as a result of its own.
CatchReportsError(err) == [kind |-> "error", error |-> err]

\* Lines 352-356 and 615-619: the catch of analyzePhysics returns null.
Catch(err) == NullResult

\* A loop that steps over every other source.
NextIndexSkipsOne(i) == i + 2

\* Lines 59-132 and 394-439: the for-of loop moves to the next source.
NextIndex(i) == i + 1

\* The response bodies that are lists of rows, as the model keeps them:
\* series of every length, oldest or newest first; the flawed and the
\* differently priced ones only among the series long enough to be
\* analysed, where they matter.
Payloads ==
    {r \in [n : Lengths, desc : BOOLEAN, flaw : Flaws, px : Closes] :
        \/ r.flaw = "none" /\ r.px = 100
        \/ /\ r.n \in MinHistory..(MinHistory + MaxExtra)
           /\ ~r.desc
           /\ (r.flaw = "none" \/ r.px = 100)}

RowsOf(p, r) == Rows(p, r.n, r.desc, r.flaw, r.px)

\* Every response a provider can give as a list of rows, with the candles
\* lines 86-95 / 408-425 make of it.
Responses ==
    {[p |-> p, r |-> r, cs |-> SubSeq(NormalizeRows(RowsOf(p, r)), 1, r.n)] :
        p \in AllIds, r \in Payloads}

NoRows == [p |-> 0, n |-> 0, desc |-> FALSE, flaw |-> "none", px |-> 0]

-----------------------------------------------------------------------------
(* The scanner and its dedup store: index.js (which calls variant A) and
   part_000 (which calls variant B).  Time is counted in half hours. *)

\* index.js: windowSeconds = 3600; part_000: DEDUP_WINDOW_MS = 1 hour.
DEDUP_WINDOW == 2

\* index.js line 89: 24 * 3600 * 1000.
DAY == 48

\* The instants at which something happens: around the dedup window after
\* the start, and around one day after the start.
Instants == {0, 1, 2, 3, 47, 48, 49, 50}

\* Two of the fifteen SYMBOLS.
SYMBOLS == <<"BTC", "ETH">>

\* How many passes the model lets run at once, and how many broadcasts it
\* follows.
MaxPasses == 2
MaxSent == 2

Sides == {"LONG", "SHORT"}

\* A pass: the index of its symbol and the await it is at; the symbols it
\* has analysed so far and whether one of them raised; while it
\* broadcasts, the side of the signal and when it was recorded.
NoPass == [idx |-> 0, stage |-> "off", seen |-> <<>>, raised |-> FALSE,
           side |-> "none", at |-> 0]

NoDecision == [kind |-> "none"]

Running == {k \in 1..MaxPasses : passes[k] # NoPass}

\* A pruning that forgets everything but the entries of this very instant.
KeptOnlyNewest(v, entries, t) == {e \in entries : e.ts = t}

\* index.js line 89: signals.filter(s => (now - s.ts) < 24h).
\* part_000 line 121: recent.filter(r => now - r.ts <= DEDUP_WINDOW_MS).
Kept(v, entries, t) ==
    IF v = "A" THEN {e \in entries : t - e.ts < DAY}
    ELSE {e \in entries : t - e.ts <= DEDUP_WINDOW}

\* A lookup that compares the symbol only.
FoundBySymbol(v, entries, symbol, side, t) ==
    \E e \in entries : e.symbol = symbol /\ t - e.ts <= DEDUP_WINDOW

\* index.js line 92: the lookup runs on the list as read, within the window.
\* part_000 line 123: the lookup runs on the pruned list.
Found(v, entries, symbol, side, t) ==
    IF v = "A"
    THEN \E e \in entries :
            e.symbol = symbol /\ e.side = side /\ t - e.ts <= DEDUP_WINDOW
    ELSE \E e \in Kept(v, entries, t) : e.symbol = symbol /\ e.side = side

\* A record that is put off: the store is left as it is.
RecordedLater(v, entries, symbol, side, t) == entries

\* recordSignal (index.js 98-104): push and write.
\* registerSentSignal (part_000 126-132): push, prune again, write.
Recorded(v, entries, symbol, side, t) ==
    LET pushed == entries \cup {[symbol |-> symbol, side |-> side, ts |-> t]}
    IN  IF v = "A" THEN pushed ELSE Kept(v, pushed, t)

ScanInit ==
    /\ now = 0
    /\ store = {}
    /\ isScanning = FALSE
    /\ passes = [k \in 1..MaxPasses |-> NoPass]
    /\ sent = <<>>
    /\ last = NoDecision

NoRequests == [p \in AllIds |-> 0]

\* No indicator evaluation and no broadcast under way, nobody subscribed.
NoCalc == [stage |-> "off"]

\* A broadcast: the await it is at; `users` as read at its start, the index
\* of the subscriber it is at, the locals attempts, ok, success and fail;
\* and for every subscriber of the list the outcomes of the sends made to
\* them so far.
NoCast == [stage |-> "off", list |-> <<>>, i |-> 0, attempts |-> 0,
           ok |-> FALSE, success |-> 0, fail |-> 0, hist |-> <<>>]

AuxInit ==
    /\ calc = NoCalc
    /\ users = <<>>
    /\ cast = NoCast

CoreInit ==
    /\ variant \in {"A", "B"}
    /\ pc = "idle"
    /\ limit = 0
    /\ order = <<>>
    /\ pos = 0
    /\ inflight = {}
    /\ reqCount = NoRequests
    /\ failed = {}
    /\ lastOutcome = "none"
    /\ raw = NoRows
    /\ fetchStatus = "none"
    /\ candles = <<>>
    /\ caught = "none"
    /\ snap = NoSnap
    /\ outcome = Pending
    /\ call = 1
    /\ first = NoFirst

Init == CoreInit /\ ScanInit /\ AuxInit

\* axios.get(url, {timeout: 10_000}) for the source at index i of ord.
Request(ord, i) ==
    /\ inflight' = inflight \cup {ord[i]}
    /\ reqCount' = [reqCount EXCEPT ![ord[i]] = @ + 1]

\* analyzePhysics(symbol, opts) is called.  Variant A first evaluates
\* symbol.includes('/') (line 241), which throws for a symbol that is no
\* string; the catch turns that into null.  Then the fetch builds its
\* iteration order and issues the first request.
Start ==
    /\ pc = "idle"
    /\ \E symOk \in BOOLEAN, lim \in Limits :
        IF variant = "A" /\ ~symOk
        THEN /\ caught' = "TypeError"
             /\ outcome' = Catch("TypeError")
             /\ pc' = "done"
             /\ UNCHANGED <<limit, order, pos, inflight, reqCount, fetchStatus>>
        ELSE /\ limit' = IF variant = "A" THEN lim ELSE LIMIT
             /\ order' \in Orders(variant)
             /\ pos' = 1
             /\ Request(order', 1)
             /\ fetchStatus' = "running"
             /\ pc' = "await"
             /\ UNCHANGED <<caught, outcome>>
    /\ UNCHANGED <<variant, failed, lastOutcome, raw, candles, snap, callVars,
                   scanVars, auxVars>>

\* The attempt at order[pos] ended without an accepted series: the loop
\* goes on with the next source, or the fetch ends after the last one
\* (line 135: throw; line 441: return null).
Advance(class) ==
    LET p == order[pos]
        i == NextIndex(pos)
    IN  /\ failed' = failed \cup {p}
        /\ lastOutcome' = class
        /\ pos' = i
        /\ IF i <= Len(order)
           THEN /\ inflight' = (inflight \ {p}) \cup {order[i]}
                /\ reqCount' = [reqCount EXCEPT ![order[i]] = @ + 1]
                /\ UNCHANGED <<pc, fetchStatus>>
           ELSE /\ inflight' = inflight \ {p}
                /\ fetchStatus' = IF variant = "A" THEN "threw" ELSE "null"
                /\ pc' = "fetched"
                /\ UNCHANGED reqCount
        /\ UNCHANGED <<variant, limit, order, candles, caught, snap, outcome,
                       callVars, scanVars, auxVars>>

\* axios.get rejects: network error, error status, or the 10 s timeout.
RespondError ==
    /\ pc = "await"
    /\ Advance("error")
    /\ UNCHANGED raw

\* The response has no body: line 64 throws (A), line 398 skips (B).
RespondNoData ==
    /\ pc = "await"
    /\ Advance("nodata")
    /\ UNCHANGED raw

\* The body has no recognised shape: line 118 continues (A); iterating it
\* or line 405 throws (B).
RespondBadShape ==
    /\ pc = "await"
    /\ Advance("badshape")
    /\ UNCHANGED raw

\* The body is a list of rows.  At least 30 candles: the fetch returns the
\* series.  Fewer: next source.
RespondRows ==
    /\ pc = "await"
    /\ \E e \in Responses :
        LET cs == e.cs
            r  == e.r
        IN  /\ e.p = order[pos]
            /\ raw' = [p |-> order[pos], n |-> r.n, desc |-> r.desc,
                       flaw |-> r.flaw, px |-> r.px]
            /\ IF Accepts(cs)
               THEN /\ candles' = FetchReturn(variant, cs, limit)
                    /\ fetchStatus' = "returned"
                    /\ lastOutcome' = "accepted"
                    /\ inflight' = inflight \ {order[pos]}
                    /\ pc' = "fetched"
                    /\ UNCHANGED <<variant, limit, order, pos, reqCount,
                                   failed, caught, snap, outcome, callVars,
                                   scanVars, auxVars>>
               ELSE Advance("short")

\* The fetch function has ended: its promise settles and its locals
\* (sources, the loop position, the response) are gone.  Until this step the
\* model keeps them at the values they had when the fetch ended.
Settle ==
    /\ pc = "fetched"
    /\ pc' = "resumed"
    /\ order' = <<>>
    /\ pos' = 0
    /\ inflight' = {}
    /\ reqCount' = NoRequests
    /\ failed' = {}
    /\ lastOutcome' = "none"
    /\ raw' = NoRows
    /\ UNCHANGED <<variant, limit, fetchStatus, candles, caught, snap, outcome,
                   callVars, scanVars, auxVars>>

\* analyzePhysics resumes after its await and runs to its return.  A thrown
\* 'All data sources failed' lands in the catch (line 352); a null from
\* fetchCandlesMulti is returned as null (line 552); a series is analysed,
\* and the indicators are computed only for a series of at least 40.
Analyze ==
    /\ pc = "resumed"
    /\ CASE fetchStatus = "threw" ->
                /\ caught' = "AllFailed"
                /\ outcome' = Catch("AllFailed")
                /\ snap' = snap
         [] fetchStatus = "null" ->
                /\ outcome' = NullResult
                /\ UNCHANGED <<caught, snap>>
         [] fetchStatus = "returned" /\ TooShort(candles) ->
                /\ outcome' = AnalyzeSeries(variant, candles, NoSnap)
                /\ UNCHANGED <<caught, snap>>
         [] fetchStatus = "returned" /\ ~TooShort(candles) ->
                /\ \E ind \in Library(variant, candles, first) :
                       /\ snap' = ind
                       /\ outcome' = AnalyzeSeries(variant, candles, ind)
                /\ UNCHANGED caught
    /\ pc' = "done"
    /\ UNCHANGED <<variant, limit, order, pos, inflight, reqCount, failed,
                   lastOutcome, raw, fetchStatus, candles, callVars, scanVars, auxVars>>

Next ==
    \/ Start
    \/ RespondError
    \/ RespondNoData
    \/ RespondBadShape
    \/ RespondRows
    \/ Settle
    \/ Analyze

Spec == Init /\ [][Next]_vars

-----------------------------------------------------------------------------
(* Two evaluations by one process.  The scan loops of index.js (line 242)
   and part_000 (line 234) call analyzePhysics again and again; the module
   analysis.js is loaded once, so whatever it kept at module level would be
   there for the second call.  It keeps DATA_SOURCES only, which both
   fetches copy before they reorder it (lines 52 and 393). *)

\* The first evaluations after which the model explores a second one: those
\* that gave a signal on a series of MinHistory candles of provider 2,
\* listed in order and closing at 100, with the RSI and the acceleration
\* at their extremes and an ATR of 2.
Replayed(cs, ind, res) ==
    /\ res.kind = "signal"
    /\ Len(cs) = MinHistory
    /\ cs[1].t = 1
    /\ cs[1].vol = Num(2)
    /\ cs[Len(cs)].close = Num(100)
    /\ ind.rsi \in {Num(0), Num(100)}
    /\ ind.a \in {Num(-1000), Num(1000)}
    /\ ind.atr = Num(2)

\* The caller calls analyzePhysics again: every local of the first call is
\* gone; the model keeps the first series and result aside to compare.
CallAgain ==
    /\ pc = "done"
    /\ call = 1
    /\ fetchStatus = "returned"
    /\ Replayed(candles, snap, outcome)
    /\ first' = [kind |-> "call", candles |-> candles, snap |-> snap,
                 outcome |-> outcome]
    /\ call' = 2
    /\ pc' = "idle"
    /\ limit' = 0
    /\ fetchStatus' = "none"
    /\ candles' = <<>>
    /\ caught' = "none"
    /\ snap' = NoSnap
    /\ outcome' = Pending
    /\ UNCHANGED <<variant, order, pos, inflight, reqCount, failed,
                   lastOutcome, raw, scanVars, auxVars>>

NextTwice ==
    \/ Next
    \/ CallAgain

SpecTwice == Init /\ [][NextTwice]_vars

-----------------------------------------------------------------------------
(* The scanner.  A pass walks over SYMBOLS; for each symbol it awaits
   analyzePhysics, decides synchronously (dedup check, record, start of the
   broadcast), awaits the broadcast, and awaits the delay between symbols.
   Here analyzePhysics is its result only: none, LONG or SHORT. *)

StartPass(k) ==
    passes' = [passes EXCEPT ![k] = [NoPass EXCEPT !.idx = 1,
                                                   !.stage = "analyze",
                                                   !.seen = <<SYMBOLS[1]>>]]

\* The timer fires (setTimeout once, setInterval afterwards).  index.js
\* (lines 231-236) returns at once while isScanning is set; part_000 (lines
\* 286-289) calls scannerPass whatever is running.
TimerTick ==
    /\ IF variant = "A"
       THEN IF isScanning
            THEN /\ last' = [kind |-> "tick", started |-> FALSE]
                 /\ UNCHANGED <<isScanning, passes>>
            ELSE /\ isScanning' = TRUE
                 /\ StartPass(1)
                 /\ last' = [kind |-> "tick", started |-> TRUE]
       ELSE /\ \E k \in 1..MaxPasses :
                  /\ passes[k] = NoPass
                  /\ \A j \in 1..(k - 1) : passes[j] # NoPass
                  /\ StartPass(k)
            /\ last' = [kind |-> "tick", started |-> TRUE]
            /\ UNCHANGED isScanning
    /\ UNCHANGED <<now, store, sent, coreVars, auxVars>>

\* An error ends the pass: the symbols left are given up.
CaughtSkipsRest(p) ==
    [p EXCEPT !.stage = "delay", !.raised = TRUE, !.side = "none", !.at = 0,
              !.idx = Len(SYMBOLS)]

\* index.js 257-259 and part_000 258-260: the catch inside the loop logs
\* the error of this symbol; the loop goes on with the delay.
CaughtInPass(p) ==
    [p EXCEPT !.stage = "delay", !.raised = TRUE, !.side = "none", !.at = 0]

\* analyzePhysics returned to pass k (index.js 242-255, part_000 234-256),
\* or the await or the dedup check raised (before any write).  A signal
\* goes through the dedup check, which prunes the file; if it is no
\* duplicate it is recorded and its broadcast starts.
AnalysisReturns(k) ==
    /\ passes[k].stage = "analyze"
    /\ \E side \in Sides \cup {"none", "raise"} :
        LET symbol == SYMBOLS[passes[k].idx]
            pruned == Kept(variant, store, now)
            dup    == Found(variant, store, symbol, side, now)
        IN  IF side = "raise"
            THEN /\ passes' = [passes EXCEPT ![k] = CaughtInPass(@)]
                 /\ UNCHANGED <<store, sent, last>>
            ELSE IF side = "none"
            THEN /\ passes' = [passes EXCEPT ![k].stage = "delay"]
                 /\ UNCHANGED <<store, sent, last>>
            ELSE /\ dup \/ Len(sent) < MaxSent
                 /\ last' = [kind |-> "check", symbol |-> symbol, side |-> side,
                             at |-> now, dup |-> dup, before |-> store]
                 /\ IF dup
                    THEN /\ store' = pruned
                         /\ passes' = [passes EXCEPT ![k].stage = "delay"]
                         /\ UNCHANGED sent
                    ELSE /\ store' = Recorded(variant, pruned, symbol, side, now)
                         /\ sent' = Append(sent, [symbol |-> symbol,
                                                  side |-> side, ts |-> now])
                         /\ passes' = [passes EXCEPT ![k].stage = "broadcast",
                                                      ![k].side = side,
                                                      ![k].at = now]
    /\ UNCHANGED <<now, isScanning, coreVars, auxVars>>

\* broadcastMessage has gone through the users, or formatting the message
\* or the broadcast raised.
BroadcastDone(k) ==
    /\ passes[k].stage = "broadcast"
    /\ \E ok \in BOOLEAN :
          passes' = [passes EXCEPT ![k] =
                        IF ok THEN [@ EXCEPT !.stage = "delay",
                                             !.side = "none", !.at = 0]
                        ELSE CaughtInPass(@)]
    /\ UNCHANGED <<now, store, isScanning, sent, last, coreVars, auxVars>>

\* A pass that leaves the flag as it is when it ends.
FlagLeftSet(v, flag) == flag

\* index.js 265-267: finally { isScanning = false }.  part_000 has no flag.
FlagAfterPass(v, flag) == IF v = "A" THEN FALSE ELSE flag

\* The delay after a symbol is over: next symbol, or the pass ends (and
\* index.js clears isScanning in its finally, line 266).
DelayDone(k) ==
    /\ passes[k].stage = "delay"
    /\ IF passes[k].idx < Len(SYMBOLS)
       THEN /\ passes' = [passes EXCEPT
                            ![k].idx = @ + 1,
                            ![k].stage = "analyze",
                            ![k].seen = Append(@, SYMBOLS[passes[k].idx + 1])]
            /\ UNCHANGED <<isScanning, last>>
       ELSE /\ passes' = [passes EXCEPT ![k] = NoPass]
            /\ isScanning' = FlagAfterPass(variant, isScanning)
            /\ last' = [kind |-> "passEnd", seen |-> passes[k].seen,
                        raised |-> passes[k].raised]
    /\ UNCHANGED <<now, store, sent, coreVars, auxVars>>

\* Time passes.
Elapse ==
    /\ \E t \in Instants : t > now /\ now' = t
    /\ UNCHANGED <<store, isScanning, passes, sent, last, coreVars, auxVars>>

ScanNext ==
    \/ TimerTick
    \/ \E k \in 1..MaxPasses : AnalysisReturns(k)
    \/ \E k \in 1..MaxPasses : BroadcastDone(k)
    \/ \E k \in 1..MaxPasses : DelayDone(k)
    \/ Elapse

ScanSpec == Init /\ [][ScanNext]_vars

-----------------------------------------------------------------------------
(* The fetch: C1 - C3 *)

FetchEnded == pc = "fetched"
Returned   == fetchStatus = "returned"
Exhausted  == fetchStatus \in {"threw", "null"}

\* The sources the loop has reached so far, in order.
Reached == {order[i] : i \in 1..Min(pos, Len(order))}

\* C1: providers are tried one after another in the iteration order; the
\* fetch returns the series of the first provider in that order that
\* yields at least 30 candles (oldest first, cut to the last `limit` in
\* variant A); every provider before it was requested once and failed,
\* none after it was requested, no request is left outstanding, and no
\* error reached the caller.
C1_FirstAcceptingProviderWins ==
    /\ pc \in {"await", "fetched"} =>
          \A p \in AllIds : reqCount[p] = (IF p \in Reached THEN 1 ELSE 0)
    /\ pc = "await" => failed = {order[i] : i \in 1..(pos - 1)}
    /\ (FetchEnded /\ Returned) =>
          LET p == order[pos]
              n == Len(candles)
          IN  /\ raw.p = p
              /\ raw.n >= MinCandles
              /\ p \notin failed
              /\ \A i \in 1..(pos - 1) : order[i] \in failed /\ reqCount[order[i]] = 1
              /\ \A i \in (pos + 1)..Len(order) : reqCount[order[i]] = 0
              /\ inflight = {}
              /\ n = (IF variant = "A" THEN Min(limit, raw.n) ELSE raw.n)
              /\ \A k \in 1..n :
                    /\ candles[k].vol = Num(p)
                    /\ LET i == raw.n - n + k
                       IN  candles[k].t =
                              (IF raw.flaw = "swapped" /\ i \in {1, 2}
                                 THEN 3 - i ELSE i)
              /\ caught = "none"
              /\ outcome = Pending

C1_Witness ==
    /\ FetchEnded /\ Returned
    /\ variant = "A"
    /\ pos = 3
    /\ order[3] = 1
    /\ raw.desc
    /\ Len(candles) < raw.n

\* C2: the fetch fails only after every provider of DATA_SOURCES was
\* requested and every attempt failed or was rejected; a response of at
\* least 30 candles is never passed over, so the fetch does not fail when
\* a provider yields one.
C2_FailsOnlyWhenAllFailed ==
    /\ (FetchEnded /\ Exhausted) =>
          /\ failed = SourceIds(variant)
          /\ \A p \in SourceIds(variant) : reqCount[p] = 1
          /\ lastOutcome \in {"error", "nodata", "badshape", "short"}
          /\ candles = <<>>
    /\ lastOutcome = "short" => raw.n < MinCandles
    /\ (pc \in {"await", "fetched"} /\ raw.n >= MinCandles) => Returned

C2_Witness ==
    /\ FetchEnded
    /\ fetchStatus = "threw"
    /\ lastOutcome = "short"
    /\ order[1] = 5

\* C3: each provider is requested at most once in a fetch (the iteration
\* order is a permutation of DATA_SOURCES, a failed provider is not
\* retried), and at most one request is outstanding at any time: the one to
\* the provider of the current iteration.
C3_OneRequestAtATime ==
    /\ \A p \in AllIds : reqCount[p] <= 1
    /\ Cardinality(inflight) <= 1
    /\ pc = "await" => inflight = {order[pos]} /\ order[pos] \notin failed
    /\ pc \in {"await", "fetched"} =>
          /\ Len(order) = Cardinality(SourceIds(variant))
          /\ {order[i] : i \in 1..Len(order)} = SourceIds(variant)

C3_Witness ==
    /\ pc = "await"
    /\ variant = "A"
    /\ pos = 4
    /\ Cardinality(failed) = 3
    /\ inflight = {order[4]}
    /\ order[4] = 2

-----------------------------------------------------------------------------
(* analyzePhysics and its caller: C4, C5 *)

Done == pc = "done"

\* C4: analyzePhysics never raises to its caller: whatever the fetch did
\* (all providers failed, a series too short) and whatever failed inside,
\* the call can always go on until it has returned, and what it returns is
\* a signal or null.
C4_NeverRaises ==
    /\ outcome.kind \in {"pending", "null", "signal"}
    /\ Done => outcome.kind \in {"null", "signal"}
    /\ ~Done => ENABLED Next

C4_Witness ==
    /\ Done
    /\ caught = "TypeError"
    /\ outcome = NullResult

\* C5 as stated: when every provider failed, and only then, the caller of
\* analyzePhysics gets an outcome that is neither a signal nor no-signal.
C5_Original ==
    Done => (Exhausted <=> outcome.kind \notin {"null", "signal"})

\* C5 amended: that every provider failed is reported by the fetch alone
\* (fetchCandlesFallback throws, fetchCandlesMulti returns null), and in
\* that case only; analyzePhysics turns it into null, the value it returns
\* for no-signal, and its caller never sees an error.
C5_ExhaustionReturnsNull ==
    /\ fetchStatus = "threw" => variant = "A"
    /\ fetchStatus = "null" => variant = "B"
    /\ FetchEnded => (Exhausted <=> failed = SourceIds(variant))
    /\ (Done /\ Exhausted) => outcome = NullResult
    /\ (Done /\ caught = "AllFailed") => fetchStatus = "threw"
    /\ outcome.kind # "raised"

C5_Witness ==
    /\ Done
    /\ fetchStatus = "threw"
    /\ caught = "AllFailed"
    /\ outcome = NullResult

-----------------------------------------------------------------------------
(* The decision: C6 - C10 *)

Analysed == Done /\ Returned /\ Len(candles) >= MinHistory

LastClose == candles[Len(candles)].close

IsSignal(side) == outcome.kind = "signal" /\ outcome.side = side

\* The latest-index values are all numbers.
SnapFinite ==
    /\ \A x \in {snap.rsi, snap.mid, snap.sd, snap.a, snap.atr} : IsNum(x)
    /\ IsNum(LastClose)

\* C6: with every latest-index value defined, the decision is LONG exactly
\* when RSI < 30, close < lower band (mid - 2 sd) and acceleration > 0,
\* SHORT exactly when RSI > 70, close > upper band (mid + 2 sd) and
\* acceleration < 0, and no-signal in every other case; the close compared
\* and reported as entry is the one of the most recent candle.
C6_DecisionRule ==
    (Analysed /\ SnapFinite) =>
        LET close == LastClose.v
            lower == snap.mid.v - 2 * snap.sd.v
            upper == snap.mid.v + 2 * snap.sd.v
            long  == snap.rsi.v < 30 /\ close < lower /\ snap.a.v > 0
            short == snap.rsi.v > 70 /\ close > upper /\ snap.a.v < 0
        IN  /\ long <=> IsSignal("LONG")
            /\ short <=> IsSignal("SHORT")
            /\ (~long /\ ~short) <=> outcome = NullResult
            /\ outcome.kind = "signal" => outcome.entry = LastClose

C6_Witness ==
    /\ Analysed /\ SnapFinite
    /\ variant = "B"
    /\ snap.rsi = Num(29)
    /\ snap.a = Num(1)
    /\ IsSignal("LONG")

\* C7: on every indicator snapshot the LONG condition and the SHORT
\* condition are not both true, and the two assignments of variant A (SHORT
\* last) choose the side the if / else-if of variant B chooses.
C7_SidesExclusive ==
    (Done /\ Returned /\ snap # NoSnap) =>
        LET lowerA == LowerBand("A", snap)
            upperA == UpperBand("A", snap)
            lowerB == LowerBand("B", snap)
            upperB == UpperBand("B", snap)
        IN  /\ ~(LongCond(snap.rsi, LastClose, lowerA, snap.a)
                  /\ ShortCond(snap.rsi, LastClose, upperA, snap.a))
            /\ ~(LongCond(snap.rsi, LastClose, lowerB, snap.a)
                  /\ ShortCond(snap.rsi, LastClose, upperB, snap.a))
            /\ Side("A", snap.rsi, LastClose, lowerA, upperA, snap.a)
                  = Side("B", snap.rsi, LastClose, lowerA, upperA, snap.a)
            /\ Side("A", snap.rsi, LastClose, lowerB, upperB, snap.a)
                  = Side("B", snap.rsi, LastClose, lowerB, upperB, snap.a)

C7_Witness ==
    /\ Analysed
    /\ variant = "A"
    /\ snap.rsi = Num(71)
    /\ ShortCond(snap.rsi, LastClose, UpperBand("A", snap), snap.a)
    /\ IsSignal("SHORT")

\* Some latest-index value among RSI, the two bands, the acceleration and
\* the ATR is undefined or not finite.
SnapDefective ==
    \E x \in {snap.rsi, LowerBand(variant, snap), UpperBand(variant, snap),
              snap.a, snap.atr} : ~IsNum(x)

\* C8 as stated: whenever one of RSI, lower band, upper band, acceleration
\* and ATR at the latest index is undefined or non-finite, the decision is
\* no-signal, and no signal carries a stop or a target that is not finite.
C8_Original ==
    /\ (Analysed /\ SnapDefective) => outcome = NullResult
    /\ (Done /\ outcome.kind = "signal") => IsNum(outcome.sl) /\ IsNum(outcome.tp)

\* C9: a fetched series of fewer than 40 candles gives no-signal, and
\* nothing is raised; a fetch never returns fewer than 30 candles, so this
\* covers every series the fetch can return that is too short.
C9_ShortSeriesNoSignal ==
    /\ (Done /\ Returned /\ Len(candles) < 40) =>
          /\ outcome = NullResult
          /\ caught = "none"
          /\ snap = NoSnap
    /\ (Returned /\ variant = "B") => Len(candles) >= 30
    /\ (Returned /\ variant = "A") => Len(candles) >= Min(30, limit)

C9_Witness ==
    /\ Done /\ Returned
    /\ variant = "B"
    /\ Len(candles) = 39
    /\ outcome = NullResult

\* C10: every signal has entry = the last close; a LONG has sl = entry -
\* 1.5 ATR and tp = entry + 3 ATR, a SHORT has sl = entry + 1.5 ATR and tp =
\* entry - 3 ATR (levels in half ticks: 2 sl = 2 entry -/+ 3 ATR, 2 tp = 2
\* entry +/- 6 ATR); entry 100 and ATR 2 give 97 / 106 for LONG and 103 / 94
\* for SHORT.  With an ATR that is NaN or Infinity the same arithmetic gives
\* NaN, or the infinity on the side of the level.
C10_Levels ==
    (Done /\ outcome.kind = "signal") =>
        LET e    == outcome.entry
            atr  == snap.atr
            long == outcome.side = "LONG"
        IN  /\ e = LastClose
            /\ IsNum(e)
            /\ outcome.side \in {"LONG", "SHORT"}
            /\ IsNum(atr) =>
                  /\ outcome.sl = Num(IF long THEN 2 * e.v - 3 * atr.v
                                      ELSE 2 * e.v + 3 * atr.v)
                  /\ outcome.tp = Num(IF long THEN 2 * e.v + 6 * atr.v
                                      ELSE 2 * e.v - 6 * atr.v)
            /\ IsNaN(atr) => outcome.sl = NaN /\ outcome.tp = NaN
            /\ atr = PosInf =>
                  /\ outcome.sl = (IF long THEN NegInf ELSE PosInf)
                  /\ outcome.tp = (IF long THEN PosInf ELSE NegInf)
            /\ (e = Num(100) /\ atr = Num(2) /\ long) =>
                  outcome.sl = Num(2 * 97) /\ outcome.tp = Num(2 * 106)
            /\ (e = Num(100) /\ atr = Num(2) /\ ~long) =>
                  outcome.sl = Num(2 * 103) /\ outcome.tp = Num(2 * 94)

C10_Witness ==
    /\ Done
    /\ IsSignal("LONG")
    /\ outcome.entry = Num(100)
    /\ snap.atr = Num(2)
    /\ outcome.sl = Num(194)
    /\ outcome.tp = Num(212)

-----------------------------------------------------------------------------
(* The result record: C11, C12 *)

\* C11 as stated: a signal whose stop is at no distance from the entry
\* (ATR = 0) has a risk-reward that is null, not a number.
C11_Original ==
    (Done /\ outcome.kind = "signal" /\ snap.atr = Num(0)) =>
        /\ outcome.sl = JsMulC(2, outcome.entry)
        /\ outcome.rr = Null

HasConfidence == "confidence" \in DOMAIN outcome

\* C12 as stated: every emitted signal carries a confidence that is an
\* integer between 30 and 95.
C12_Original ==
    (Done /\ outcome.kind = "signal") =>
        HasConfidence /\ outcome.confidence \in 30..95

\* C12 amended: every signal of variant A carries a confidence that is an
\* integer between 30 and 95, whatever the RSI, the acceleration, the entry
\* and the ATR are; the signal of variant B carries no confidence at all.
C12_ConfidenceOfVariantA ==
    (Done /\ outcome.kind = "signal") =>
        /\ variant = "A" => HasConfidence /\ outcome.confidence \in 30..95
        /\ variant = "B" => ~HasConfidence

C12_Witness ==
    /\ Done
    /\ variant = "A"
    /\ IsSignal("LONG")
    /\ snap.rsi = Num(0)
    /\ snap.a = Num(1000)
    /\ outcome.confidence = 95

-----------------------------------------------------------------------------
(* Two evaluations: C13 *)

SecondDone == call = 2 /\ Done

-----------------------------------------------------------------------------
(* The scanner: C14 - C16 *)

SameKey(x, y) == x.symbol = y.symbol /\ x.side = y.side

Checked == last.kind = "check"

\* C14: over any sequence of passes, no two broadcasts of the same (symbol,
\* side) are less than one hour apart: a signal is not broadcast while a
\* signal of the same symbol and side was sent less than an hour before.
\* And what suppresses a signal is a broadcast of the same symbol and the
\* same side within the window, never one of another symbol or the other
\* side; a signal that is not suppressed is broadcast.
C14_NoRepeatWithinWindow ==
    /\ \A i, j \in 1..Len(sent) :
          (i < j /\ SameKey(sent[i], sent[j])) =>
              sent[j].ts - sent[i].ts >= DEDUP_WINDOW
    /\ (Checked /\ last.dup) =>
          \E i \in 1..Len(sent) :
              /\ SameKey(sent[i], last)
              /\ last.at - sent[i].ts \in 0..DEDUP_WINDOW
    /\ (Checked /\ ~last.dup) =>
          \E i \in 1..Len(sent) :
              SameKey(sent[i], last) /\ sent[i].ts = last.at

C14_Witness ==
    /\ Checked
    /\ last.dup
    /\ last.symbol = "BTC" /\ last.side = "LONG" /\ last.at = 1
    /\ sent = <<[symbol |-> "BTC", side |-> "LONG", ts |-> 0],
                [symbol |-> "BTC", side |-> "SHORT", ts |-> 1]>>

\* C15: after a dedup check the dedup file holds no entry older than 24
\* hours, and the pruning of the check has removed no entry younger than
\* the dedup window of one hour.
C15_PruningBounds ==
    Checked =>
        /\ \A e \in store : last.at - e.ts <= DAY
        /\ \A e \in last.before :
              last.at - e.ts < DEDUP_WINDOW => e \in store

C15_Witness ==
    /\ Checked
    /\ variant = "A"
    /\ last.at = 48
    /\ last.before = {[symbol |-> "BTC", side |-> "LONG", ts |-> 0],
                      [symbol |-> "ETH", side |-> "LONG", ts |-> 47]}
    /\ store = {[symbol |-> "ETH", side |-> "LONG", ts |-> 47]}

\* C16 as stated: at most one scan pass is in progress at any time, a tick
\* that fires while a pass is running starts no pass, and no two passes are
\* analysing the same symbol at once.
C16_Original ==
    /\ Cardinality(Running) <= 1
    /\ \A j, k \in Running :
          (j # k /\ passes[j].stage = "analyze" /\ passes[k].stage = "analyze")
              => passes[j].idx # passes[k].idx

\* ------------------------------------------------------------------
\* Claims about the normalisation of a fetched series.

\* The candles the accepted response lists, oldest first, as lines 86-95 /
\* 408-425 coerce them.
AscendingListing ==
    NormalizeRows(Rows(raw.p, raw.n, FALSE, raw.flaw, raw.px))

\* C17: when the accepted provider lists its candles newest first, the
\* returned series is in ascending time order and equal to the series
\* the fetch returns when the same candles are listed oldest first.
C17_ReversedEqualsAscending ==
    (FetchEnded /\ Returned /\ raw.desc) =>
        /\ candles = FetchReturn(variant, AscendingListing, limit)
        /\ \A k \in 1..(Len(candles) - 1) : candles[k].t < candles[k + 1].t

C17_Witness ==
    /\ FetchEnded /\ Returned
    /\ raw.desc
    /\ raw.n = MinHistory
    /\ variant = "A"
    /\ limit = 35
    /\ candles[1].t = 6
    /\ candles[35].t = 40

\* C18: every series a fetch returns has non-decreasing timestamps,
\* oldest first, whatever order the provider listed its candles in.
C18_Original ==
    (FetchEnded /\ Returned) =>
        \A k \in 1..(Len(candles) - 1) : candles[k].t <= candles[k + 1].t

\* A candle all of whose OHLCV fields are finite numbers.
Finite(c) ==
    IsNum(c.open) /\ IsNum(c.high) /\ IsNum(c.low) /\ IsNum(c.close) /\ IsNum(c.vol)

\* C19: a candle with an OHLCV field that cannot be coerced to a finite
\* number is dropped and the others are kept: a returned series holds
\* finite candles only, and it is made of the candles that remain, at
\* least 30 of them.
C19_Original ==
    (FetchEnded /\ Returned) =>
        LET kept == SelectSeq(AscendingListing, Finite)
        IN  /\ \A k \in 1..Len(candles) : Finite(candles[k])
            /\ Len(kept) >= MinCandles
            /\ Len(candles) <= Len(kept)

\* The last min(limit, n) candles of the accepted response's n candles in
\* chronological order, for a response that lists them in order.
Truncated ==
    LET n   == Min(limit, raw.n)
        asc == AscendingListing
    IN  candles = [k \in 1..n |-> asc[raw.n - n + k]]

\* C20: a returned series has at most `limit` candles and is exactly the
\* last min(limit, n) candles of the accepted provider's n candles in
\* chronological order.
C20_Original ==
    (FetchEnded /\ Returned) =>
        /\ Len(candles) <= limit
        /\ raw.flaw # "swapped" => Truncated

\* What of C20 holds: fetchCandlesFallback (variant A) cuts the series to
\* its last min(limit, n) candles.
C20_FallbackTruncates ==
    (FetchEnded /\ Returned /\ variant = "A") =>
        /\ Len(candles) <= limit
        /\ raw.flaw # "swapped" => Truncated

C20_FallbackCuts ==
    /\ FetchEnded /\ Returned
    /\ variant = "A"
    /\ limit = LIMIT
    /\ raw.n = LIMIT + 1
    /\ Len(candles) = LIMIT
    /\ candles[1].t = 2

-----------------------------------------------------------------------------
(* The indicator functions taken alone.

   computeRSI, sma, rollingStd, computeATR (variant A, lines 147-234) and
   rsiFromArray, sma, stddev, atrFromCandles (variant B, lines 445-524) are
   pure functions of their arguments.  Here they are computed as the code
   computes them, in exact fractions: a number is [k |-> "num", n, d] with
   d > 0 in lowest terms.  Rounding is left out; overflow is kept: a result
   whose magnitude exceeds MAX_VALUE is Infinity or -Infinity, as in IEEE
   754 arithmetic, and from there on Infinity and NaN propagate as they do
   in JavaScript.  MAX_VALUE stands for Number.MAX_VALUE, scaled down. *)

MAX_VALUE == 1000

RECURSIVE GCD(_, _)
GCD(a, b) == IF b = 0 THEN a ELSE GCD(b, a % b)

Sign(x) == IF x < 0 THEN -1 ELSE 1

\* The number n / d (d # 0), rounded to Infinity when out of range.
Frac(n, d) ==
    LET s == Sign(n) * Sign(d)
        a == Abs(n)
        b == Abs(d)
        g == GCD(a, b)
    IN  IF a > MAX_VALUE * b THEN [k |-> "inf", v |-> s]
        ELSE [k |-> "num", n |-> s * (a \div g), d |-> b \div g]

Whole(x) == Frac(x, 1)

IsInf(a) == a.k = "inf"

\* x === 0.
IsZero(a) == IsNum(a) /\ a.n = 0

\* The sign of a number that is not NaN: -1, 0 or 1.
SignOf(a) ==
    IF IsInf(a) THEN a.v
    ELSE IF a.n < 0 THEN -1 ELSE IF a.n = 0 THEN 0 ELSE 1

InfOf(s) == [k |-> "inf", v |-> s]

\* a + b.
FAdd(a, b) ==
    IF IsNaN(a) \/ IsNaN(b) THEN NaN
    ELSE IF IsInf(a) /\ IsInf(b) THEN (IF a.v = b.v THEN a ELSE NaN)
    ELSE IF IsInf(a) THEN a
    ELSE IF IsInf(b) THEN b
    ELSE Frac(a.n * b.d + b.n * a.d, a.d * b.d)

\* -a.
FNeg(a) ==
    IF IsNaN(a) THEN NaN
    ELSE IF IsInf(a) THEN InfOf(-a.v)
    ELSE Frac(-a.n, a.d)

\* a - b.
FSub(a, b) == FAdd(a, FNeg(b))

\* a * b.
FMul(a, b) ==
    IF IsNaN(a) \/ IsNaN(b) THEN NaN
    ELSE IF IsInf(a) \/ IsInf(b)
         THEN (IF SignOf(a) = 0 \/ SignOf(b) = 0 THEN NaN
               ELSE InfOf(SignOf(a) * SignOf(b)))
    ELSE Frac(a.n * b.n, a.d * b.d)

\* a / b (the sign of a zero is not kept: x / 0 is Infinity with the sign
\* of x).
FDiv(a, b) ==
    IF IsNaN(a) \/ IsNaN(b) THEN NaN
    ELSE IF IsInf(a) /\ IsInf(b) THEN NaN
    ELSE IF IsInf(a) THEN InfOf(a.v * (IF SignOf(b) < 0 THEN -1 ELSE 1))
    ELSE IF IsInf(b) THEN Whole(0)
    ELSE IF b.n = 0 THEN (IF a.n = 0 THEN NaN ELSE InfOf(SignOf(a)))
    ELSE Frac(a.n * b.d, a.d * b.n)

\* Math.abs(a).
FAbs(a) ==
    IF IsNaN(a) THEN NaN
    ELSE IF IsInf(a) THEN PosInf
    ELSE Frac(Abs(a.n), a.d)

\* a < b: false as soon as one side is NaN.
FLt(a, b) ==
    /\ ~IsNaN(a)
    /\ ~IsNaN(b)
    /\ IF IsInf(a) THEN a.v = -1 /\ b # NegInf
       ELSE IF IsInf(b) THEN b.v = 1
       ELSE a.n * b.d < b.n * a.d

FGt(a, b) == FLt(b, a)

\* a >= b: false as soon as one side is NaN.
FGe(a, b) == ~IsNaN(a) /\ ~IsNaN(b) /\ ~FLt(a, b)

FLe(a, b) == FGe(b, a)

\* Math.max(a, b): NaN as soon as one argument is NaN.
FMax(a, b) ==
    IF IsNaN(a) \/ IsNaN(b) THEN NaN
    ELSE IF FLt(a, b) THEN b ELSE a

\* Math.sqrt(a) of a non-negative number: the root where it is a
\* fraction, and else the number named by its square.
FSqrt(a) ==
    IF IsNaN(a) THEN NaN
    ELSE IF IsInf(a) THEN (IF a.v = 1 THEN PosInf ELSE NaN)
    ELSE IF a.n < 0 THEN NaN
    ELSE IF \E r \in 0..a.n, q \in 1..a.d : r * r = a.n /\ q * q = a.d
         THEN LET r == CHOOSE x \in 0..a.n : x * x = a.n
                  q == CHOOSE x \in 1..a.d : x * x = a.d
              IN  Frac(r, q)
    ELSE [k |-> "root", of |-> a]

\* arr.reduce((a, b) => a + b, 0) over s[from..to].
RECURSIVE FSum(_, _, _)
FSum(s, from, to) ==
    IF to < from THEN Whole(0)
    ELSE FAdd(FSum(s, from, to - 1), s[to])

\* Lines 151-152 / 473-474: the price changes, deltas[i] at position i + 1.
Deltas(prices) ==
    [i \in 1..(Len(prices) - 1) |-> FSub(prices[i + 1], prices[i])]

\* Lines 155-160 (A: d >= 0 is a gain) and 479-483 (B: v > 0 is a gain):
\* the sums of the gains and of the losses over the first n changes.
RECURSIVE SeedSums(_, _, _)
SeedSums(v, ds, n) ==
    IF n = 0 THEN [gains |-> Whole(0), losses |-> Whole(0)]
    ELSE LET prev == SeedSums(v, ds, n - 1)
             d    == ds[n]
             up   == IF v = "A" THEN FGe(d, Whole(0)) ELSE FGt(d, Whole(0))
         IN  IF up THEN [prev EXCEPT !.gains = FAdd(@, d)]
             ELSE [prev EXCEPT !.losses = FAdd(@, FAbs(d))]

\* avgGain and avgLoss when the value of price index i (0-based, i >=
\* period) is computed: the seed of lines 161-162 / 484-485, then Wilder's
\* smoothing of lines 168-173 / 488-493.
RECURSIVE Averages(_, _, _, _)
Averages(v, ds, period, i) ==
    IF i = period
    THEN LET s == SeedSums(v, ds, period)
         IN  [avgGain |-> FDiv(s.gains, Whole(period)),
              avgLoss |-> FDiv(s.losses, Whole(period))]
    ELSE LET prev == Averages(v, ds, period, i - 1)
             d    == ds[i]
             gain == IF FGt(d, Whole(0)) THEN d ELSE Whole(0)
             loss == IF FLt(d, Whole(0)) THEN FAbs(d) ELSE Whole(0)
         IN  [avgGain |-> FDiv(FAdd(FMul(prev.avgGain, Whole(period - 1)), gain),
                               Whole(period)),
              avgLoss |-> FDiv(FAdd(FMul(prev.avgLoss, Whole(period - 1)), loss),
                               Whole(period))]

\* 100 - 100 / (1 + rs).
RsiOfRs(rs) == FSub(Whole(100), FDiv(Whole(100), FAdd(Whole(1), rs)))

\* Lines 164-165 and 174-175 (A): rs = avgLoss === 0 ? 100 : avgGain /
\* avgLoss, then 100 - 100 / (1 + rs).  Lines 487 and 494 (B): avgLoss ===
\* 0 ? 100 : 100 - 100 / (1 + avgGain / avgLoss).
RsiValue(v, avg) ==
    IF v = "A"
    THEN RsiOfRs(IF IsZero(avg.avgLoss) THEN Whole(100)
                 ELSE FDiv(avg.avgGain, avg.avgLoss))
    ELSE IF IsZero(avg.avgLoss) THEN Whole(100)
         ELSE RsiOfRs(FDiv(avg.avgGain, avg.avgLoss))

\* computeRSI (A, lines 147-178) and rsiFromArray (B, lines 471-496): the
\* RSI at every index of prices, null where it is not computed.  With it
\* the avgLoss each value was computed from.
ComputeRSI(v, prices, period) ==
    LET n  == Len(prices)
        ds == Deltas(prices)
        on(i) == n >= period + 1 /\ i - 1 >= period
    IN  [rsi     |-> [i \in 1..n |->
                        IF on(i) THEN RsiValue(v, Averages(v, ds, period, i - 1))
                        ELSE Null],
         avgLoss |-> [i \in 1..n |->
                        IF on(i) THEN Averages(v, ds, period, i - 1).avgLoss
                        ELSE Null]]

\* Number(b) || 0 of a number: NaN and 0 become 0.
FOrZero(a) == IF IsNaN(a) THEN Whole(0) ELSE a

\* The population variance of s[from..to] as lines 196-197 / 463-464
\* compute it: the mean, then the mean of the squared distances.
Variance(s, from, to) ==
    LET len  == Whole(to - from + 1)
        mean == FDiv(FSum(s, from, to), len)
        sq   == [i \in 1..to |->
                    IF i < from THEN Whole(0)
                    ELSE FMul(FSub(s[i], mean), FSub(s[i], mean))]
    IN  FDiv(FSum(sq, from, to), len)

\* sma of variant A (lines 181-189): the mean of the window
\* arr.slice(Math.max(0, i - period + 1), i + 1), whatever its length.
\* sma of variant B (lines 445-456): null while i + 1 < len, then the mean
\* of the len trailing values.
Sma(v, arr, period) ==
    [j \in 1..Len(arr) |->
        IF v = "A"
        THEN LET from == Max(1, j - period + 1)
             IN  FDiv(FSum([i \in 1..Len(arr) |-> FOrZero(arr[i])], from, j),
                      Whole(j - from + 1))
        ELSE IF j < period THEN Null
             ELSE FDiv(FSum(arr, j - period + 1, j), Whole(period))]

\* rollingStd of variant A (lines 192-201) and stddev of variant B (lines
\* 457-469), windows as in the two sma.
RollingStd(v, arr, period) ==
    [j \in 1..Len(arr) |->
        IF v = "A"
        THEN FSqrt(Variance(arr, Max(1, j - period + 1), j))
        ELSE IF j < period THEN Null
             ELSE FSqrt(Variance(arr, j - period + 1, j))]

\* Lines 206-213 / 499-507: the true ranges, trs[i - 1] for the candle at
\* index i >= 1; here at position i.
TrueRanges(bars) ==
    [t \in 1..(Len(bars) - 1) |->
        LET b == bars[t + 1]
            c == bars[t].close
        IN  FMax(FMax(FSub(b.high, b.low), FAbs(FSub(b.high, c))),
                 FAbs(FSub(b.low, c)))]

\* The smoothed ATR at candle index i >= period (0-based): the mean of the
\* first period true ranges (lines 221-223 / 513-516), then
\* (prev * (period - 1) + tr) / period (lines 225-229 / 517-522).
RECURSIVE AtrAt(_, _, _)
AtrAt(trs, period, i) ==
    IF i = period THEN FDiv(FSum(trs, 1, period), Whole(period))
    ELSE FDiv(FAdd(FMul(AtrAt(trs, period, i - 1), Whole(period - 1)), trs[i]),
              Whole(period))

\* computeATR (A, lines 204-234): with fewer than period true ranges their
\* plain mean at every index (0 for none); else the smoothed ATR from index
\* period on, and before it the first value (or 0 if that is falsy).
\* atrFromCandles (B, lines 498-524): null at every index without a
\* smoothed value.
ComputeATR(v, bars, period) ==
    LET n   == Len(bars)
        trs == TrueRanges(bars)
    IN  [j \in 1..n |->
            IF Len(trs) < period
            THEN (IF v = "A"
                  THEN FDiv(FSum(trs, 1, Len(trs)),
                            Whole(IF Len(trs) = 0 THEN 1 ELSE Len(trs)))
                  ELSE Null)
            ELSE IF j - 1 >= period THEN AtrAt(trs, period, j - 1)
            ELSE IF v = "A" THEN FOrZero(AtrAt(trs, period, period))
            ELSE Null]

\* The inputs of the evaluations: series of at most MaxCloses prices, among
\* them the largest finite number and its negative, and series of at most
\* MaxBars candles: an ordinary one, a flat one, one whose high lies below
\* its low, and three at the ends of the number range.
MaxCloses == 5
MaxBars == 4

Prices == {Whole(-MAX_VALUE), Whole(0), Whole(1), Whole(MAX_VALUE)}

Bar(h, l, c) == [high |-> Whole(h), low |-> Whole(l), close |-> Whole(c)]

Bars == {Bar(2, 0, 1), Bar(1, 1, 1), Bar(0, 2, 1),
         Bar(MAX_VALUE, -MAX_VALUE, 0),
         Bar(MAX_VALUE, MAX_VALUE, MAX_VALUE),
         Bar(-MAX_VALUE, -MAX_VALUE, -MAX_VALUE)}

\* The periods the functions are called with (the code passes 14, 20 and 3;
\* the functions take any).
Periods == {2, 3}

SeqsUpTo(S, n) == UNION {[1..m -> S] : m \in 0..n}

CalcInputs ==
    {[stage |-> "input", of |-> "closes", arg |-> s, period |-> p] :
        s \in SeqsUpTo(Prices, MaxCloses), p \in Periods}
    \cup
    {[stage |-> "input", of |-> "bars", arg |-> s, period |-> p] :
        s \in SeqsUpTo(Bars, MaxBars), p \in Periods}

CalcInit ==
    /\ CoreInit
    /\ ScanInit
    /\ users = <<>>
    /\ cast = NoCast
    /\ calc \in CalcInputs

\* One function is applied to the input; out is what it returned.
Evaluated(fn, out) ==
    /\ calc' = [stage |-> fn, of |-> calc.of, arg |-> calc.arg,
                period |-> calc.period, out |-> out]
    /\ UNCHANGED <<coreVars, scanVars, users, cast>>

EvalRSI ==
    /\ calc.stage = "input" /\ calc.of = "closes"
    /\ Evaluated("rsi", ComputeRSI(variant, calc.arg, calc.period))

EvalSma ==
    /\ calc.stage = "input" /\ calc.of = "closes"
    /\ Evaluated("sma", Sma(variant, calc.arg, calc.period))

EvalStd ==
    /\ calc.stage = "input" /\ calc.of = "closes"
    /\ Evaluated("std", RollingStd(variant, calc.arg, calc.period))

EvalATR ==
    /\ calc.stage = "input" /\ calc.of = "bars"
    /\ Evaluated("atr", ComputeATR(variant, calc.arg, calc.period))

CalcNext == EvalRSI \/ EvalSma \/ EvalStd \/ EvalATR

CalcSpec == CalcInit /\ [][CalcNext]_vars

\* ------------------------------------------------------------------
\* Claims about the indicator functions.

\* C21: at the seed index and at every later index, whenever the smoothed
\* average loss is exactly zero the RSI at that index is exactly 100.
C21_Original ==
    calc.stage = "rsi" =>
        \A j \in 1..Len(calc.arg) :
            IsZero(calc.out.avgLoss[j]) => calc.out.rsi[j] = Whole(100)

\* C22: the rolling mean and the rolling standard deviation of period p
\* are undefined at every index i < p - 1 and are the mean, or the
\* population deviation, of exactly the p trailing values at every index
\* i >= p - 1: no value of a partly filled window is produced.
C22_Original ==
    LET p   == calc.period
        arr == calc.arg
    IN  /\ calc.stage = "sma" =>
              \A j \in 1..Len(arr) :
                  calc.out[j] = (IF j < p THEN Null
                                 ELSE FDiv(FSum(arr, j - p + 1, j), Whole(p)))
        /\ calc.stage = "std" =>
              \A j \in 1..Len(arr) :
                  calc.out[j] = (IF j < p THEN Null
                                 ELSE FSqrt(Variance(arr, j - p + 1, j)))

\* C23: for every series of finite numbers, every RSI value that is
\* defined lies in [0, 100], and every ATR value is >= 0.
C23_Original ==
    /\ calc.stage = "rsi" =>
          \A j \in 1..Len(calc.arg) :
              LET r == calc.out.rsi[j]
              IN  ~IsNull(r) => FGe(r, Whole(0)) /\ FLe(r, Whole(100))
    /\ calc.stage = "atr" =>
          \A j \in 1..Len(calc.arg) :
              LET a == calc.out[j]
              IN  ~IsNull(a) => FGe(a, Whole(0))

\* What of C23 holds: the ATR is >= 0 for every series, and the RSI lies in
\* [0, 100] whenever neither average has overflowed; where both have, the
\* RSI is NaN.
C23_InRangeUnlessOverflow ==
    /\ calc.stage = "atr" => C23_Original
    /\ calc.stage = "rsi" =>
          \A j \in 1..Len(calc.arg) :
              LET r == calc.out.rsi[j]
              IN  \/ IsNull(r)
                  \/ FGe(r, Whole(0)) /\ FLe(r, Whole(100))
                  \/ IsNaN(r) /\ calc.out.avgLoss[j] = PosInf

\* ------------------------------------------------------------------
\* Claims about a scan pass.

PassEnded == last.kind = "passEnd"

\* C24: in one scan pass every symbol of SYMBOLS is analysed exactly once,
\* in list order; an error raised while analysing, deduplicating or
\* broadcasting a symbol does not end the pass: the symbols after it are
\* still analysed.
C24_EverySymbolOnce ==
    /\ \A k \in Running :
          /\ passes[k].idx \in 1..Len(SYMBOLS)
          /\ passes[k].seen = SubSeq(SYMBOLS, 1, passes[k].idx)
    /\ PassEnded => last.seen = SYMBOLS

C24_Witness ==
    /\ PassEnded
    /\ last.raised
    /\ last.seen = SYMBOLS
    /\ \E k \in Running : passes[k].raised /\ passes[k].idx = 1
                          /\ passes[k].stage = "delay"

Broadcasting == {k \in Running : passes[k].stage = "broadcast"}

\* C29: the (symbol, side) record is written before the broadcast of the
\* signal starts, in the same step as the dedup check: while a broadcast
\* is in progress its record is in the dedup store (as long as it is
\* inside the dedup window), and no (symbol, side) is broadcast again
\* within the window, whatever became of the first broadcast.
C29_RecordedBeforeBroadcast ==
    /\ \A k \in Broadcasting :
          now - passes[k].at <= DEDUP_WINDOW =>
              [symbol |-> SYMBOLS[passes[k].idx], side |-> passes[k].side,
               ts |-> passes[k].at] \in store
    /\ (Checked /\ ~last.dup /\ now - last.at <= DEDUP_WINDOW) =>
          [symbol |-> last.symbol, side |-> last.side, ts |-> last.at] \in store
    /\ \A i, j \in 1..Len(sent) :
          (i < j /\ SameKey(sent[i], sent[j])) =>
              sent[j].ts - sent[i].ts > DEDUP_WINDOW

C29_Witness ==
    /\ Len(sent) = 2
    /\ SameKey(sent[1], sent[2])
    /\ sent[1].ts = 0
    /\ sent[2].ts = 3
    /\ last.kind = "passEnd" /\ last.raised
    /\ \E k \in Broadcasting : passes[k].at = 3 /\ now = 3

\* The scanner when every fetch, every send and every timer it awaits
\* eventually completes.
ScanLive ==
    /\ ScanSpec
    /\ \A k \in 1..MaxPasses :
          /\ WF_vars(AnalysisReturns(k))
          /\ WF_vars(BroadcastDone(k))
          /\ WF_vars(DelayDone(k))

\* C30: every started pass of index.js eventually resets isScanning, also
\* when analysing or broadcasting a symbol raised; and a tick that fires
\* while the flag is clear starts a new pass.
C30_FlagEventuallyCleared ==
    /\ (variant = "A" /\ isScanning) ~> ~isScanning
    /\ [][(variant = "A" /\ ~isScanning /\ TimerTick)
             => (isScanning' /\ passes'[1].stage = "analyze")]_vars

C30_Witness ==
    /\ variant = "A"
    /\ ~isScanning
    /\ PassEnded /\ last.raised
    /\ Len(sent) = 1

-----------------------------------------------------------------------------
(* The subscribers and the broadcast.

   index.js ("A"): addUser 58-72, removeUser 74-81, broadcastMessage
   148-186, the /start handler 206-220.  part_000 ("B"): addUser 66-76,
   removeUser 77-82, broadcastMessage 135-155, the handlers 193-218.  The
   users file is read and written synchronously, so every handler step
   sees and leaves a whole list.  One broadcast runs at a time; /start and
   /stop messages arrive at any await of it. *)

ChatIds == {1, 2, 3}

\* What a call of bot.sendMessage can end with: success, or a rejection
\* with statusCode 403, 400, or any other error (429, a timeout, ...).
SendOutcomes == {"ok", "403", "400", "other"}

\* index.js line 154: while (attempts < 3 && !ok).
MAX_ATTEMPTS == 3

Entries(us) == {us[j] : j \in 1..Len(us)}

Without(us, c) == SelectSeq(us, LAMBDA u : u # c)

\* An addUser that pushes without looking.
AddUserAlways(us, c) == Append(us, c)

\* addUser (index.js 58-72, part_000 66-76): push unless found.
AddUser(us, c) == IF c \in Entries(us) THEN us ELSE Append(us, c)

\* removeUser (index.js 74-81, part_000 77-82): filter and write.
RemoveUser(us, c) == Without(us, c)

\* A policy that takes every failure for a permanent one.
PermanentAlways(v, result) == result # "ok"

\* index.js line 163: statusCode === 403 || statusCode === 400.
\* part_000 line 146: statusCode === 403.
Permanent(v, result) ==
    IF v = "A" THEN result \in {"403", "400"} ELSE result = "403"

\* A loop that retries without counting.
RetryUncounted(attempts, ok) == ~ok

\* index.js line 154: the condition of the retry loop.
Retry(attempts, ok) == attempts < MAX_ATTEMPTS /\ ~ok

\* A broadcast that forgets the subscriber it gave up on.
FailAfterLoopNever(ok, fail) == fail

\* index.js line 180: if (!ok) fail++.
FailAfterLoop(ok, fail) == IF ok THEN fail ELSE fail + 1

CastRunning == cast.stage \in {"send", "backoff", "pause"}

\* /start (index.js 206-220, part_000 193-202): addUser, then a reply.
Register(c) ==
    /\ users' = AddUser(users, c)
    /\ UNCHANGED <<cast, calc, coreVars, scanVars>>

\* /stop of part_000 (lines 211-213): removeUser.
Stop(c) ==
    /\ variant = "B"
    /\ c \in Entries(users)
    /\ users' = RemoveUser(users, c)
    /\ UNCHANGED <<cast, calc, coreVars, scanVars>>

\* The loop reaches the subscriber at index j of the list, or the end of
\* the list, where the broadcast returns {success, fail}.
AtSubscriber(c, j) ==
    IF j <= Len(c.list)
    THEN [c EXCEPT !.stage = "send", !.i = j, !.attempts = 0, !.ok = FALSE]
    ELSE [c EXCEPT !.stage = "returned", !.i = j]

\* broadcastMessage is called: the users are read once (line 149 / 137).
StartBroadcast ==
    /\ ~CastRunning
    /\ cast' = AtSubscriber([NoCast EXCEPT !.list = users,
                                          !.hist = [j \in 1..Len(users) |-> <<>>]],
                            1)
    /\ UNCHANGED <<users, calc, coreVars, scanVars>>

\* The send to the current subscriber ends.  index.js 155-177: a success
\* ends the retries; a failure counts an attempt, and then a permanent
\* status removes the user, ends the retries and counts a failure, any
\* other error waits 500 ms * attempts.  part_000 139-149: a success is
\* counted and followed by a delay, a failure is counted, a 403 removes the
\* user, and the loop goes on at once.
SendEnds(result) ==
    /\ cast.stage = "send"
    /\ LET u    == cast.list[cast.i]
           seen == [cast EXCEPT !.hist[cast.i] = Append(@, result)]
       IN  IF variant = "A"
           THEN IF result = "ok"
                THEN /\ cast' = [seen EXCEPT !.ok = TRUE, !.success = @ + 1,
                                             !.stage = "pause"]
                     /\ UNCHANGED users
                ELSE IF Permanent(variant, result)
                THEN /\ users' = RemoveUser(users, u)
                     /\ cast' = [seen EXCEPT !.attempts = @ + 1, !.ok = TRUE,
                                             !.fail = @ + 1, !.stage = "pause"]
                ELSE /\ cast' = [seen EXCEPT !.attempts = @ + 1,
                                             !.stage = "backoff"]
                     /\ UNCHANGED users
           ELSE IF result = "ok"
                THEN /\ cast' = [seen EXCEPT !.success = @ + 1, !.stage = "pause"]
                     /\ UNCHANGED users
                ELSE /\ users' = IF Permanent(variant, result)
                                 THEN RemoveUser(users, u) ELSE users
                     /\ cast' = AtSubscriber([seen EXCEPT !.fail = @ + 1],
                                             cast.i + 1)
    /\ UNCHANGED <<calc, coreVars, scanVars>>

\* index.js 169 and 154, 180-182: the backoff is over; the loop sends
\* again, or it is left, the subscriber counted as failed, for the delay
\* of 120 ms.
BackoffDone ==
    /\ cast.stage = "backoff"
    /\ cast' = IF Retry(cast.attempts, cast.ok)
               THEN [cast EXCEPT !.stage = "send"]
               ELSE [cast EXCEPT !.stage = "pause",
                                 !.fail = FailAfterLoop(cast.ok, @)]
    /\ UNCHANGED <<users, calc, coreVars, scanVars>>

\* index.js 182 / part_000 142: the delay after a subscriber is over.
PauseDone ==
    /\ cast.stage = "pause"
    /\ cast' = AtSubscriber(cast, cast.i + 1)
    /\ UNCHANGED <<users, calc, coreVars, scanVars>>

BotNext ==
    \/ \E c \in ChatIds : Register(c)
    \/ \E c \in ChatIds : Stop(c)
    \/ StartBroadcast
    \/ \E result \in SendOutcomes : SendEnds(result)
    \/ BackoffDone
    \/ PauseDone

BotSpec == Init /\ [][BotNext]_vars

\* The bot when every send and every timer eventually completes.
BotLive ==
    /\ BotSpec
    /\ WF_vars(\E result \in SendOutcomes : SendEnds(result))
    /\ WF_vars(BackoffDone)
    /\ WF_vars(PauseDone)

\* ------------------------------------------------------------------
\* Claims about the subscribers and the broadcast.

CastReturned == cast.stage = "returned"

\* C25: during one broadcast of index.js a subscriber gets at most 3 send
\* attempts, and none after a send to them succeeded or failed with status
\* 403 or 400; and every broadcast returns, whatever the sends end with.
C25_BroadcastBoundedAndEnds ==
    /\ [](variant = "A" =>
            \A j \in 1..Len(cast.hist) :
                /\ Len(cast.hist[j]) <= 3
                /\ \A m \in 1..(Len(cast.hist[j]) - 1) : cast.hist[j][m] = "other")
    /\ (variant = "A" /\ CastRunning) ~> CastReturned

C25_Witness ==
    /\ variant = "A"
    /\ CastReturned
    /\ cast.list = <<1, 2, 3>>
    /\ cast.hist = << <<"other", "other", "other">>, <<"other", "ok">>, <<"403">> >>

\* C26: a step of a broadcast removes a subscriber from the users store
\* exactly when it is the end of a send to that subscriber with a
\* permanent-failure status (403 or 400 in index.js, 403 in part_000);
\* then the store loses that subscriber's entry and nothing else, and
\* every other step of the broadcast leaves the store as it is.
C26_RemovedOnPermanentFailureOnly ==
    [][cast' # cast =>
          IF cast.stage = "send"
          THEN LET u == cast.list[cast.i]
                   h == cast'.hist[cast.i]
                   r == h[Len(h)]
               IN  users' = (IF \/ variant = "A" /\ r \in {"403", "400"}
                                \/ variant = "B" /\ r = "403"
                             THEN SelectSeq(users, LAMBDA x : x # u)
                             ELSE users)
          ELSE users' = users]_vars

C26_Witness ==
    /\ variant = "A"
    /\ CastReturned
    /\ cast.list = <<1, 2, 3>>
    /\ cast.hist = << <<"400">>, <<"other", "other", "other">>, <<"ok">> >>
    /\ users = <<2, 3>>

\* C27: when a broadcast returns, success + fail is the number of
\* subscribers read at its start: success counts those whose last send
\* succeeded, fail all the others.
C27_EverySubscriberCountedOnce ==
    CastReturned =>
        LET reached == {j \in 1..Len(cast.list) :
                            cast.hist[j] # <<>> /\
                            cast.hist[j][Len(cast.hist[j])] = "ok"}
        IN  /\ cast.success = Cardinality(reached)
            /\ cast.fail = Len(cast.list) - Cardinality(reached)
            /\ cast.success + cast.fail = Len(cast.list)

C27_Witness ==
    /\ variant = "A"
    /\ CastReturned
    /\ Len(cast.list) = 3
    /\ cast.success = 1
    /\ cast.fail = 2
    /\ \E j \in 1..3 : cast.hist[j] = <<"other", "other", "other">>

\* C28: after any sequence of registrations, removals and broadcasts the
\* users store holds at most one entry per chatId, and a /start of a
\* chatId that is already stored leaves the store unchanged.
C28_OneEntryPerChat ==
    /\ [](\A i, j \in 1..Len(users) : users[i] = users[j] => i = j)
    /\ [][\A c \in ChatIds :
            (Register(c) /\ \E i \in 1..Len(users) : users[i] = c)
                => users' = users]_vars

C28_Witness ==
    /\ users = <<2, 1>>
    /\ CastReturned
    /\ cast.list = <<1, 2>>
    /\ cast.hist = << <<"403">>, <<"ok">> >>

-----------------------------------------------------------------------------
(* The risk-reward and the confidence of a signal: C31, C32 *)

\* C31 as stated: every emitted signal whose ATR is not zero, LONG or
\* SHORT, has a risk-reward of exactly 2.00 (200 hundredths), whatever the
\* entry and the ATR are.
C31_Original ==
    (Done /\ outcome.kind = "signal" /\ snap.atr # Num(0)) =>
        outcome.rr = Num(200)

\* What holds of lines 314 and 604 in arithmetic without rounding: with an
\* ATR that is a number other than zero the two distances are 3 ATR and
\* 1.5 ATR and the quotient is 2.00, for LONG and for SHORT; with an ATR
\* that is NaN or Infinity the quotient is NaN, which variant A returns as
\* null and variant B as 0.  The numbers of this model are exact: the
\* rounding of each double operation is outside it (variant B returns the
\* quotient unrounded, 1.9999999999999052 for entry 100 and ATR 0.1, and
\* an entry of 1e17 absorbs 1.5 * 2 and 3 * 2, so both distances are 0).
C31_TwoWhenAtrFinite ==
    (Done /\ outcome.kind = "signal" /\ snap.atr # Num(0)) =>
        /\ IsNum(snap.atr) => outcome.rr = Num(200)
        /\ ~IsNum(snap.atr) =>
              outcome.rr = (IF variant = "A" THEN Null ELSE Num(0))

C31_FiniteSeen ==
    /\ Done
    /\ IsSignal("SHORT")
    /\ snap.atr = Num(3)
    /\ outcome.rr = Num(200)

\* C32: every signal that carries a confidence (the signals of variant A;
\* variant B computes none, C12) and whose entry price is positive has a
\* confidence of at least 70, and of at most 95: under the LONG or the
\* SHORT condition the RSI term, the acceleration term and the ATR bonus
\* are all non-negative, so the lower clamp of 30 is not reached.  With an
\* entry that is not positive the acceleration term is negative and the
\* clamp is reached.
C32_AtLeastSeventy ==
    (Done /\ outcome.kind = "signal" /\ HasConfidence) =>
        /\ JsGt(outcome.entry, Num(0)) => outcome.confidence \in 70..95
        /\ outcome.confidence \in 30..95

\* A signal with a positive entry whose score is neither capped nor
\* clamped: RSI 71 and |a| / entry * 1000 = 1000 / 300, 70 + 1 + 3 = 74.
C32_Witness ==
    /\ Done
    /\ variant = "A"
    /\ IsSignal("SHORT")
    /\ JsGt(outcome.entry, Num(0))
    /\ snap.rsi = Num(71)
    /\ outcome.confidence = 74

\* The clamp is there for a reason: a signal with a negative entry has the
\* confidence 30.
C32_ClampReachedBelowZero ==
    /\ Done
    /\ variant = "A"
    /\ outcome.kind = "signal"
    /\ JsLt(outcome.entry, Num(0))
    /\ outcome.confidence = 30

====
